---- MODULE Spec2Model ----
(***************************************************************************)
(* Codenote save-synchronisation engine: the server's revision store       *)
(* (PATCH /api/projects/:id with its compare-and-swap and snapshots) and   *)
(* the ProjectView save scheduler (timers, flush, conflict resolution,     *)
(* local drafts).                                                          *)
(***************************************************************************)
EXTENDS Integers, Sequences, FiniteSets, TLC

(* ------------------------------------------------------------------ *)
(* Bounds of the model                                                *)
(* ------------------------------------------------------------------ *)

\* number of PATCH requests the editing session may send
MaxReq == 2

\* number of saves a second tab may make beside the editing session
MaxTab == 1

\* number of PATCH requests sent to the server when it is modelled alone
MaxWrites == 2

\* number of coarse wall-clock steps the server clock may take
MaxClock == 1

(* ------------------------------------------------------------------ *)
(* Program constants                                                  *)
(* ------------------------------------------------------------------ *)

SAVE_DEBOUNCE_MS == 500
SAVE_MAX_INTERVAL_MS == 5000
DRAFT_DEBOUNCE_MS == 250
SNAPSHOT_INTERVAL_MS == 30000
SNAPSHOT_EVERY_N_REVISIONS == 10

DEFAULT_LANGUAGE == "typescript"
DEFAULT_CONTENT == "// Start typing in Codenote\n"

\* the name POST /api/projects gives a project created with an empty body
\* ("Untitled Project"), as a sequence of characters
DEFAULT_NAME == <<"U">>

(* ------------------------------------------------------------------ *)
(* Value domains                                                      *)
(* ------------------------------------------------------------------ *)

\* project identifiers: A and B exist from the start
Ids == {"A", "B"}

\* editor contents the user can produce
Contents == {DEFAULT_CONTENT, "a"}

\* content written by another tab
OtherContents == {"b"}

\* names the user can type into the name input (one with trailing blank)
NameInputs == {DEFAULT_NAME, <<"n", " ">>}

\* body fields that are absent or of the wrong type
NoContent == "<none>"
NoName == <<"<none>">>
NoBase == 0 - 1

\* String.prototype.trim on a name: strips leading and trailing blanks
RECURSIVE TrimLeft(_)
TrimLeft(s) ==
  IF s # <<>> /\ Head(s) = " " THEN TrimLeft(Tail(s)) ELSE s

RECURSIVE TrimRight(_)
TrimRight(s) ==
  IF s # <<>> /\ s[Len(s)] = " " THEN TrimRight(SubSeq(s, 1, Len(s) - 1)) ELSE s

Trim(s) == TrimRight(TrimLeft(s))

\* the time one tick of the client's timers stands for
Quantum == DRAFT_DEBOUNCE_MS

\* one coarse step of the wall clock
ClockStep == SNAPSHOT_INTERVAL_MS

(* ------------------------------------------------------------------ *)
(* State                                                              *)
(* ------------------------------------------------------------------ *)

VARIABLES
  projects,       \* server: the projects table, one row per identifier
  snapshots,      \* server: the project_snapshots table
  now,            \* wall clock (ms)
  reqs,           \* PATCH requests and their handlers in progress
  nextReq,        \* number of PATCH requests issued so far
  otherSent,      \* number of them that other writers issued
  accepted,       \* history: the (project, baseRevision) pairs whose UPDATE matched
  written,        \* history: the (project, revision, content) each UPDATE left in the row
  projectIdRef,   \* client: projectIdRef.current
  latestValueRef, \* client: latestValueRef.current (and the value state)
  latestNameRef,  \* client: latestNameRef.current (and the name state)
  baseRevisionRef,\* client: baseRevisionRef.current
  lastSavedRef,   \* client: lastSavedRef.current
  lastSavedNameRef, \* client: lastSavedNameRef.current
  savingRef,      \* client: savingRef.current
  pendingSaveRef, \* client: pendingSaveRef.current
  conflictRef,    \* client: conflictRef.current (and the conflictProject state)
  saveState,      \* client: the saveState shown
  debounceRef,    \* client: the debounce timer
  maxFlushRef,    \* client: the bounding timer
  draftTimerRef,  \* client: the draft-write timer and the draft it will write
  drafts,         \* client: the IndexedDB drafts store
  unsavedFor,     \* history: time since the first unsaved mutation not yet flushed
  undraftedFor,   \* history: time since the first unsaved mutation no draft write has followed
  burst,          \* history: the burst of mutations in progress or last ended
  restoreDraft,   \* client: the restoreDraft state, the draft offered for restoration
  draftLoads,     \* client: the draft lookups of session starts still in progress
  lastAct,        \* history: the last thing the user did in the editing session
  indexedDB,      \* client: whether the browser provides IndexedDB, and whether it answers
  clocked         \* whether time is counted: if not, an armed timer may fire at any moment

serverVars == <<projects, snapshots, now, accepted, written>>
netVars == <<reqs, nextReq, otherSent>>
refVars == <<projectIdRef, latestValueRef, latestNameRef, baseRevisionRef,
             lastSavedRef, lastSavedNameRef, savingRef, pendingSaveRef,
             conflictRef, saveState>>
timerVars == <<debounceRef, maxFlushRef, draftTimerRef>>
offerVars == <<restoreDraft, draftLoads>>
histVars == <<unsavedFor, undraftedFor, burst>>
clientVars == <<refVars, timerVars, drafts, indexedDB, histVars, offerVars, lastAct>>
vars == <<serverVars, netVars, clientVars, clocked>>

\* the absent row / the absent conflict / a response without a project body
NoProject ==
  [id |-> "none", name |-> <<>>, language |-> "", content |-> "",
   revision |-> 0, createdAt |-> 0, updatedAt |-> 0]

\* the row POST /api/projects inserts for an empty body
NewProject(id, t) ==
  [id |-> id, name |-> DEFAULT_NAME, language |-> DEFAULT_LANGUAGE,
   content |-> DEFAULT_CONTENT, revision |-> 0, createdAt |-> t, updatedAt |-> t]

Exists(id) == projects[id].id = id

\* no snapshot found by maybeSnapshot's lookup (latest === undefined)
NoLatest == [found |-> FALSE, createdAt |-> 0]

\* a PATCH request as it leaves its sender
NewRequest(n, from, id, content, name, base) ==
  [id |-> n, from |-> from, doc |-> id, content |-> content, name |-> name,
   base |-> base, pc |-> "sent", status |-> 0, body |-> NoProject,
   latest |-> NoLatest, abandoned |-> FALSE]

Replace(r, r2) == (reqs \ {r}) \cup {r2}

Respond(r, status, body) ==
  [r EXCEPT !.pc = "resp", !.status = status, !.body = body]

(* ------------------------------------------------------------------ *)
(* Server: PATCH /api/projects/:id                                    *)
(* ------------------------------------------------------------------ *)

\* a WHERE clause that compares the id only
CasMatchesIdOnly(row, id, base) == row.id = id

\* a WHERE clause that also takes a row older than the base revision's successor
CasMatchesAtLeast(row, id, base) == row.id = id /\ row.revision >= base

\* the WHERE clause of the UPDATE: id and revision both match
CasMatches(row, id, base) == row.id = id /\ row.revision = base

\* a SET clause that leaves the revision column out
UpdateValuesKeepsRevision(row, content, name, base, t) ==
  [row EXCEPT !.content = content,
              !.updatedAt = t,
              !.name = IF name = NoName THEN @ ELSE Trim(name)]

\* a SET clause that stores the name as the body carried it
UpdateValuesNameAsSent(row, content, name, base, t) ==
  [row EXCEPT !.content = content,
              !.revision = base + 1,
              !.updatedAt = t,
              !.name = IF name = NoName THEN @ ELSE name]

\* the SET clause of the UPDATE, with name only when the body carried one
UpdateValues(row, content, name, base, t) ==
  [row EXCEPT !.content = content,
              !.revision = base + 1,
              !.updatedAt = t,
              !.name = IF name = NoName THEN @ ELSE Trim(name)]

\* the history of rows is kept only by the specifications that follow it
Unrecorded == {[doc |-> "none", revision |-> 0, content |-> ""]}

\* the history of rows after an UPDATE has returned the row `updated`
Written(updated) ==
  IF written = Unrecorded THEN Unrecorded
  ELSE written \cup {[doc |-> updated.id, revision |-> updated.revision,
                      content |-> updated.content]}

\* GET /api/projects/:id of a project that exists: the row as stored
GetProject(id) == projects[id]

\* a handler that validates the content only
ServerUpdateContentOnly(r) ==
  /\ r.pc = "sent"
  /\ IF r.content = NoContent
       THEN /\ reqs' = Replace(r, Respond(r, 400, NoProject))
            /\ UNCHANGED <<projects, accepted, written>>
       ELSE IF CasMatches(projects[r.doc], r.doc, r.base)
         THEN LET updated == UpdateValues(projects[r.doc], r.content, r.name, r.base, now)
              IN /\ projects' = [projects EXCEPT ![r.doc] = updated]
                 /\ accepted' = accepted \cup {[doc |-> r.doc, base |-> r.base, req |-> r.id]}
                 /\ written' = Written(updated)
                 /\ reqs' = Replace(r, [r EXCEPT !.pc = "updated", !.body = updated])
         ELSE /\ reqs' = Replace(r, [r EXCEPT !.pc = "missed"])
              /\ UNCHANGED <<projects, accepted, written>>
  /\ UNCHANGED <<snapshots, now, nextReq, otherSent, clientVars, clocked>>

\* body validation, then the compare-and-swap UPDATE ... RETURNING
ServerUpdate(r) ==
  /\ r.pc = "sent"
  /\ IF r.content = NoContent \/ r.base = NoBase
       THEN /\ reqs' = Replace(r, Respond(r, 400, NoProject))
            /\ UNCHANGED <<projects, accepted, written>>
       ELSE IF CasMatches(projects[r.doc], r.doc, r.base)
         THEN LET updated == UpdateValues(projects[r.doc], r.content, r.name, r.base, now)
              IN /\ projects' = [projects EXCEPT ![r.doc] = updated]
                 /\ accepted' = accepted \cup {[doc |-> r.doc, base |-> r.base, req |-> r.id]}
                 /\ written' = Written(updated)
                 /\ reqs' = Replace(r, [r EXCEPT !.pc = "updated", !.body = updated])
         ELSE /\ reqs' = Replace(r, [r EXCEPT !.pc = "missed"])
              /\ UNCHANGED <<projects, accepted, written>>
  /\ UNCHANGED <<snapshots, now, nextReq, otherSent, clientVars, clocked>>

\* no row was updated: re-select the row, answer 404 or 409 with it
ServerConflict(r) ==
  /\ r.pc = "missed"
  /\ LET current == projects[r.doc]
     IN reqs' = Replace(r, IF current.id # r.doc
                             THEN Respond(r, 404, NoProject)
                             ELSE Respond(r, 409, current))
  /\ UNCHANGED <<serverVars, nextReq, otherSent, clientVars, clocked>>

\* Deno.serve's catch: an exception out of handleApi is answered 500
ServeCatch(r) == Respond(r, 500, NoProject)

\* a lookup without its WHERE clause: the newest snapshot row of any project
LatestSnapshotOfAny(id) ==
  LET own == snapshots
  IN IF own = {} THEN NoLatest
     ELSE LET s == CHOOSE x \in own : \A y \in own : y.createdAt <= x.createdAt
          IN [found |-> TRUE, createdAt |-> s.createdAt]

\* the newest snapshot row of a project, by createdAt
LatestSnapshot(id) ==
  LET own == {s \in snapshots : s.projectId = id}
  IN IF own = {} THEN NoLatest
     ELSE LET s == CHOOSE x \in own : \A y \in own : y.createdAt <= x.createdAt
          IN [found |-> TRUE, createdAt |-> s.createdAt]

\* a decision that knows no cadence of revisions
ShouldSnapshotByAgeOnly(latest, t, revision) ==
  \/ ~latest.found
  \/ t - (IF latest.found THEN latest.createdAt ELSE 0) >= SNAPSHOT_INTERVAL_MS

\* maybeSnapshot's decision
ShouldSnapshot(latest, t, revision) ==
  \/ ~latest.found
  \/ t - (IF latest.found THEN latest.createdAt ELSE 0) >= SNAPSHOT_INTERVAL_MS
  \/ revision % SNAPSHOT_EVERY_N_REVISIONS = 0

\* maybeSnapshot, first statement: select the latest snapshot; a rejected
\* statement leaves handleApi as an exception
SnapshotLookup(r) ==
  /\ r.pc = "updated"
  /\ \/ reqs' = Replace(r, [r EXCEPT !.pc = "looked", !.latest = LatestSnapshot(r.doc)])
     \/ reqs' = Replace(r, ServeCatch(r))
  /\ UNCHANGED <<serverVars, nextReq, otherSent, clientVars, clocked>>

\* an insert that numbers the snapshot with the request's base revision
SnapshotInsertOfBase(r) ==
  /\ r.pc = "looked"
  /\ IF ShouldSnapshot(r.latest, now, r.body.revision)
       THEN \/ /\ snapshots' = snapshots \cup
                    {[id |-> r.id, projectId |-> r.doc, revision |-> r.base,
                      content |-> r.body.content, createdAt |-> now]}
               /\ reqs' = Replace(r, Respond(r, 200, r.body))
            \/ /\ reqs' = Replace(r, ServeCatch(r))
               /\ UNCHANGED snapshots
       ELSE /\ reqs' = Replace(r, Respond(r, 200, r.body))
            /\ UNCHANGED snapshots
  /\ UNCHANGED <<projects, now, accepted, written, nextReq, otherSent, clientVars, clocked>>

\* maybeSnapshot, second statement, and the 200 answer after it
SnapshotInsert(r) ==
  /\ r.pc = "looked"
  /\ IF ShouldSnapshot(r.latest, now, r.body.revision)
       THEN \/ /\ snapshots' = snapshots \cup
                    {[id |-> r.id, projectId |-> r.doc, revision |-> r.body.revision,
                      content |-> r.body.content, createdAt |-> now]}
               /\ reqs' = Replace(r, Respond(r, 200, r.body))
            \/ /\ reqs' = Replace(r, ServeCatch(r))
               /\ UNCHANGED snapshots
       ELSE /\ reqs' = Replace(r, Respond(r, 200, r.body))
            /\ UNCHANGED snapshots
  /\ UNCHANGED <<projects, now, accepted, written, nextReq, otherSent, clientVars, clocked>>

(* ------------------------------------------------------------------ *)
(* Server: POST /api/projects                                         *)
(* ------------------------------------------------------------------ *)

\* the names a POST body carries (NoName: the body has no name)
CreateNames == {NoName, <<" ">>, <<" ", "m">>}

\* the name of the inserted row: the body's name trimmed, if that is not empty
CreateName(name) ==
  IF name = NoName \/ Trim(name) = <<>> THEN DEFAULT_NAME ELSE Trim(name)

\* a POST that may take the identifier of an existing row
CreateProjectAnyId(id, name) ==
  LET inserted == [NewProject(id, now) EXCEPT !.name = CreateName(name)]
  IN /\ projects' = [projects EXCEPT ![id] = inserted]
     /\ reqs' = reqs \cup
          {Respond(NewRequest(nextReq + 1, "creator", id, NoContent, name, NoBase),
                   201, inserted)}
     /\ nextReq' = nextReq + 1
     /\ UNCHANGED <<snapshots, now, accepted, written, otherSent, clientVars, clocked>>

\* POST /api/projects: insert a row under crypto.randomUUID(), an identifier no
\* row has, and answer 201 with the inserted row
CreateProject(id, name) ==
  LET inserted == [NewProject(id, now) EXCEPT !.name = CreateName(name)]
  IN /\ ~Exists(id)
     /\ projects' = [projects EXCEPT ![id] = inserted]
     /\ reqs' = reqs \cup
          {Respond(NewRequest(nextReq + 1, "creator", id, NoContent, name, NoBase),
                   201, inserted)}
     /\ nextReq' = nextReq + 1
     /\ UNCHANGED <<snapshots, now, accepted, written, otherSent, clientVars, clocked>>

(* ------------------------------------------------------------------ *)
(* Other writers (a second tab, any HTTP client)                      *)
(* ------------------------------------------------------------------ *)

\* names another writer sends (NoName: the body has no name)
OtherNames == {NoName, <<" ", "m">>}

\* another writer sends a PATCH with any body
OtherPatch(id, content, name, base) ==
  /\ otherSent' = otherSent + 1
  /\ reqs' = reqs \cup {NewRequest(nextReq + 1, "other", id, content, name, base)}
  /\ nextReq' = nextReq + 1
  /\ UNCHANGED <<serverVars, clientVars, clocked>>

\* a response nobody in the model waits for: another writer's, or one whose
\* fetch has already failed on the client
Unawaited(r) == r.from # "client" \/ r.abandoned

OtherReceive(r) ==
  /\ r.pc = "resp"
  /\ Unawaited(r)
  /\ reqs' = reqs \ {r}
  /\ UNCHANGED <<serverVars, nextReq, otherSent, clientVars, clocked>>

\* the wall clock moves on
ClockAdvance ==
  /\ now < MaxClock * ClockStep
  /\ now' = now + ClockStep
  /\ UNCHANGED <<projects, snapshots, accepted, written, netVars, clientVars, clocked>>

(* ------------------------------------------------------------------ *)
(* Client: ProjectView's save scheduler                               *)
(* ------------------------------------------------------------------ *)

\* a timer ref that is null
Null == 0 - 1

\* a timer ref still holding the id of a timer that has already fired
Fired == 0 - 2

Armed(t) == t >= 0

\* the timer's callback may run now
Due(t) == Armed(t) /\ (clocked => t = 0)

NoDraft ==
  [projectId |-> "none", content |-> "", name |-> <<>>, updatedAt |-> 0,
   baseRevision |-> 0]

DraftRecord(id, content, name, t, base) ==
  [projectId |-> id, content |-> content, name |-> name, updatedAt |-> t,
   baseRevision |-> base]

NoDraftTimer == [left |-> Null, draft |-> NoDraft]

\* openDb rejects when the browser has no IndexedDB
DbOpens == indexedDB = "defined"

\* the promises of openDb and of the store's requests settle only from
\* onsuccess and onerror: a store that fires neither leaves them pending
StoreSettles == indexedDB # "hangs"

\* setDraft: the drafts store after store.put(draft); a failure is swallowed by
\* the caller
SetDraft(draft) ==
  IF DbOpens THEN [drafts EXCEPT ![draft.projectId] = draft] ELSE drafts

\* a clearDraft that deletes nothing
ClearDraftKeeps(id) == drafts

\* clearDraft: the drafts store after store.delete(projectId)
ClearDraft(id) ==
  IF DbOpens THEN [drafts EXCEPT ![id] = NoDraft] ELSE drafts

\* the buffer differs from the saved baseline
Dirty(value, name, saved, savedName) == ~(value = saved /\ name = savedName)

\* no burst of mutations is in progress or has ended
NoBurst == [span |-> Null, quiet |-> Null, sent |-> 0, dirty |-> FALSE, timers |-> FALSE]

\* the run keeps no history of bursts and draft writes
Unfollowed == [span |-> Null, quiet |-> Null, sent |-> Null, dirty |-> FALSE, timers |-> FALSE]

Least(a, b) == IF a < b THEN a ELSE b

\* history, kept in the runs that start with NoBurst: a burst begins with a mutation made
\* while the buffer equals the baseline, the save state is idle, no conflict is
\* open and no flush is in flight, and lasts until SAVE_DEBOUNCE_MS pass without
\* a mutation. span is the time from its first to its last mutation, quiet the
\* time since the last, sent the number of PATCH requests the session has sent
\* since it began, dirty whether its last mutation left the buffer different
\* from the baseline, timers whether a save timer was armed when it began.
\* d is the time this step takes
Burst(d) ==
  LET changed == <<latestValueRef', latestNameRef'>> # <<latestValueRef, latestNameRef>>
      sentNow == IF nextReq' - otherSent' > nextReq - otherSent THEN 1 ELSE 0
      dirtyNow == Dirty(latestValueRef', latestNameRef', lastSavedRef', lastSavedNameRef')
  IN IF burst = Unfollowed THEN Unfollowed
     ELSE IF changed
       THEN IF burst # NoBurst /\ burst.quiet < SAVE_DEBOUNCE_MS
              THEN [burst EXCEPT !.span = Least(@ + burst.quiet, SAVE_MAX_INTERVAL_MS),
                                 !.quiet = 0,
                                 !.sent = @ + sentNow,
                                 !.dirty = dirtyNow]
            ELSE IF /\ ~Dirty(latestValueRef, latestNameRef, lastSavedRef, lastSavedNameRef)
                    /\ saveState = "idle" /\ conflictRef = NoProject /\ ~savingRef
              THEN [span |-> 0, quiet |-> 0, sent |-> sentNow, dirty |-> dirtyNow,
                    timers |-> Armed(debounceRef) \/ Armed(maxFlushRef)]
            ELSE NoBurst
     ELSE IF burst = NoBurst THEN NoBurst
     ELSE [burst EXCEPT !.quiet = Least(@ + d, SAVE_DEBOUNCE_MS + Quantum),
                        !.sent = @ + sentNow]

\* history, kept with burst: the time since the first mutation that
\* left the buffer unsaved and that no write to the drafts store has followed
Undrafted(d) ==
  IF burst = Unfollowed THEN Null
  ELSE IF undraftedFor # Null
    THEN Least(undraftedFor + d, DRAFT_DEBOUNCE_MS + Quantum)
  ELSE IF /\ <<latestValueRef', latestNameRef'>> # <<latestValueRef, latestNameRef>>
          /\ Dirty(latestValueRef', latestNameRef', lastSavedRef', lastSavedNameRef')
    THEN 0
  ELSE Null

\* history: the time since the first mutation that left the buffer unsaved while
\* no flush was in flight and no conflict was open; Null once the buffer equals
\* the baseline again or a PATCH has been sent. d is the time this step takes
Aged(d) ==
  /\ UNCHANGED <<clocked, indexedDB>>
  /\ undraftedFor' = Undrafted(d)
  /\ burst' = Burst(d)
  /\ unsavedFor' =
       IF nextReq' # nextReq
          \/ ~Dirty(latestValueRef', latestNameRef', lastSavedRef', lastSavedNameRef')
         THEN Null
       ELSE IF unsavedFor # Null
         THEN (IF unsavedFor + d > SAVE_MAX_INTERVAL_MS + Quantum
                 THEN SAVE_MAX_INTERVAL_MS + Quantum ELSE unsavedFor + d)
       ELSE IF <<latestValueRef', latestNameRef'>> # <<latestValueRef, latestNameRef>>
               /\ conflictRef' = NoProject /\ ~savingRef'
         THEN 0
       ELSE Null

\* scheduleDraftWrite: replace the pending draft write
ScheduleDraftWrite(draft) == [left |-> DRAFT_DEBOUNCE_MS, draft |-> draft]

\* a scheduleServerSave that lets a running debounce timer run on
ScheduleServerSaveKeepsDebounce(conflict, deb, mx) ==
  IF conflict # NoProject THEN <<deb, mx>>
  ELSE <<IF Armed(deb) THEN deb ELSE SAVE_DEBOUNCE_MS,
         IF mx = Null THEN SAVE_MAX_INTERVAL_MS ELSE mx>>

\* a scheduleServerSave that arms nothing
ScheduleServerSaveNever(conflict, deb, mx) == <<deb, mx>>

\* scheduleServerSave, as <<debounce, maxFlush>> after it ran on <<deb, mx>>
ScheduleServerSave(conflict, deb, mx) ==
  IF conflict # NoProject THEN <<deb, mx>>
  ELSE <<SAVE_DEBOUNCE_MS, IF mx = Null THEN SAVE_MAX_INTERVAL_MS ELSE mx>>

\* a flush that does not compare the buffer with the saved baseline
FlushSkipsOnlyBusy(conflict) ==
  \/ conflict # NoProject
  \/ savingRef

\* a flush that goes on while a conflict is unresolved
FlushSkipsNotOnConflict(conflict) ==
  \/ savingRef
  \/ ~Dirty(latestValueRef, latestNameRef, lastSavedRef, lastSavedNameRef)

\* flush's early returns; conflict is conflictRef.current as its caller left it
FlushSkips(conflict) ==
  \/ conflict # NoProject
  \/ savingRef
  \/ ~Dirty(latestValueRef, latestNameRef, lastSavedRef, lastSavedNameRef)

\* flush(reason), entered with conflictRef, baseRevisionRef, saveState and the
\* timer refs as its caller left them
Flush(conflict, base, state, deb, mx) ==
  IF FlushSkips(conflict)
    THEN /\ debounceRef' = deb
         /\ maxFlushRef' = mx
         /\ saveState' = state
         /\ UNCHANGED <<savingRef, pendingSaveRef, netVars>>
    ELSE /\ nextReq - otherSent < MaxReq
         /\ UNCHANGED otherSent
         /\ savingRef' = TRUE
         /\ pendingSaveRef' = FALSE
         /\ debounceRef' = Null
         /\ maxFlushRef' = Null
         /\ saveState' = "saving"
         /\ reqs' = reqs \cup {NewRequest(nextReq + 1, "client", projectIdRef,
                                          latestValueRef, latestNameRef, base)}
         /\ nextReq' = nextReq + 1

\* the debounce timer fires: flush("debounce")
DebounceFire ==
  /\ Due(debounceRef)
  /\ Flush(conflictRef, baseRevisionRef, saveState, Fired, maxFlushRef)
  /\ UNCHANGED <<serverVars, projectIdRef, latestValueRef, latestNameRef,
                 baseRevisionRef, lastSavedRef, lastSavedNameRef, conflictRef,
                 draftTimerRef, drafts>>
  /\ Aged(0)
  /\ UNCHANGED <<offerVars, lastAct>>

\* the bounding timer fires: flush("max")
MaxFire ==
  /\ Due(maxFlushRef)
  /\ Flush(conflictRef, baseRevisionRef, saveState, debounceRef, Fired)
  /\ UNCHANGED <<serverVars, projectIdRef, latestValueRef, latestNameRef,
                 baseRevisionRef, lastSavedRef, lastSavedNameRef, conflictRef,
                 draftTimerRef, drafts>>
  /\ Aged(0)
  /\ UNCHANGED <<offerVars, lastAct>>

\* blur, pagehide, visibilitychange; the Retry button while saveState is error
ExplicitFlush(reason) ==
  /\ reason = "retry" => saveState = "error"
  /\ Flush(conflictRef, baseRevisionRef, saveState, debounceRef, maxFlushRef)
  /\ UNCHANGED <<serverVars, projectIdRef, latestValueRef, latestNameRef,
                 baseRevisionRef, lastSavedRef, lastSavedNameRef, conflictRef,
                 draftTimerRef, drafts>>
  /\ Aged(0)
  /\ UNCHANGED <<offerVars, lastAct>>

\* the effect on [name, value], run with a new content or name
ValueEffect(value, name) ==
  /\ latestValueRef' = value
  /\ latestNameRef' = name
  /\ IF ~Dirty(value, name, lastSavedRef, lastSavedNameRef)
       THEN UNCHANGED <<draftTimerRef, pendingSaveRef, debounceRef, maxFlushRef>>
       ELSE /\ draftTimerRef' = ScheduleDraftWrite(
                   DraftRecord(projectIdRef, value, name, now, baseRevisionRef))
            /\ IF conflictRef # NoProject
                 THEN UNCHANGED <<pendingSaveRef, debounceRef, maxFlushRef>>
                 ELSE IF savingRef
                   THEN /\ pendingSaveRef' = TRUE
                        /\ UNCHANGED <<debounceRef, maxFlushRef>>
                   ELSE LET t == ScheduleServerSave(conflictRef, debounceRef, maxFlushRef)
                        IN /\ debounceRef' = t[1]
                           /\ maxFlushRef' = t[2]
                           /\ UNCHANGED pendingSaveRef
  /\ UNCHANGED <<serverVars, netVars, projectIdRef, baseRevisionRef, lastSavedRef,
                 lastSavedNameRef, savingRef, conflictRef, saveState, drafts>>
  /\ Aged(0)

\* the user changed the content or the name
Mutate(value, name) ==
  /\ <<value, name>> # <<latestValueRef, latestNameRef>>
  /\ ValueEffect(value, name)
  /\ UNCHANGED offerVars
  /\ lastAct' = "mutate"

\* handleRestore, and the effect on [name, value] if the draft changed either
RestoreDraft ==
  /\ restoreDraft # NoDraft
  /\ IF <<restoreDraft.content, restoreDraft.name>> # <<latestValueRef, latestNameRef>>
       THEN ValueEffect(restoreDraft.content, restoreDraft.name)
       ELSE /\ UNCHANGED <<serverVars, netVars, refVars, timerVars, drafts>>
            /\ Aged(0)
  /\ restoreDraft' = NoDraft
  /\ UNCHANGED draftLoads
  /\ lastAct' = "restore"

\* a discard that withdraws the offer and leaves the store alone
DiscardDraftLeavesEntry ==
  /\ restoreDraft # NoDraft
  /\ restoreDraft' = NoDraft
  /\ UNCHANGED <<serverVars, netVars, refVars, timerVars, draftLoads, drafts>>
  /\ Aged(0)
  /\ lastAct' = "discard"

\* handleDiscardDraft
DiscardDraft ==
  /\ restoreDraft # NoDraft
  /\ drafts' = ClearDraft(projectIdRef)
  /\ restoreDraft' = NoDraft
  /\ UNCHANGED <<serverVars, netVars, refVars, timerVars, draftLoads>>
  /\ Aged(0)
  /\ lastAct' = "discard"

\* the draft lookup of a session start: getDraft has settled; the draft is
\* offered, or is to be cleared, or is left alone
DraftGet(l) ==
  /\ l.pc = "get"
  /\ StoreSettles
  /\ LET draft == IF DbOpens THEN drafts[l.project.id] ELSE NoDraft
     IN IF draft = NoDraft
          THEN /\ draftLoads' = draftLoads \ {l}
               /\ UNCHANGED restoreDraft
          ELSE IF draft.content = l.project.content /\ draft.name = l.project.name
            THEN /\ draftLoads' = (draftLoads \ {l}) \cup {[l EXCEPT !.pc = "clear"]}
                 /\ UNCHANGED restoreDraft
            ELSE IF draft.updatedAt <= l.project.updatedAt
              THEN /\ draftLoads' = draftLoads \ {l}
                   /\ UNCHANGED restoreDraft
              ELSE /\ draftLoads' = draftLoads \ {l}
                   /\ restoreDraft' = draft
  /\ UNCHANGED <<serverVars, netVars, refVars, timerVars, drafts, lastAct>>
  /\ Aged(0)

\* the draft lookup of a session start: clearDraft of a draft equal to the
\* project
DraftStaleClear(l) ==
  /\ l.pc = "clear"
  /\ StoreSettles
  /\ drafts' = ClearDraft(l.project.id)
  /\ draftLoads' = draftLoads \ {l}
  /\ UNCHANGED <<serverVars, netVars, refVars, timerVars, restoreDraft, lastAct>>
  /\ Aged(0)

\* a finally block that schedules a save whether or not a mutation is pending
FinallyAlwaysSchedules(conflict) ==
  /\ savingRef' = FALSE
  /\ LET t == ScheduleServerSave(conflict, debounceRef, maxFlushRef)
     IN /\ debounceRef' = t[1]
        /\ maxFlushRef' = t[2]
  /\ UNCHANGED pendingSaveRef

\* flush's finally block; conflict is conflictRef.current on reaching it
Finally(conflict) ==
  /\ savingRef' = FALSE
  /\ LET t == IF pendingSaveRef
                THEN ScheduleServerSave(conflict, debounceRef, maxFlushRef)
                ELSE <<debounceRef, maxFlushRef>>
     IN /\ debounceRef' = t[1]
        /\ maxFlushRef' = t[2]
  /\ UNCHANGED pendingSaveRef

\* the fetch of a flush resolves with the server's response
ClientReceive(r) ==
  /\ r.from = "client" /\ ~r.abandoned /\ r.pc = "resp"
  /\ IF r.status = 409
       THEN \* conflictRef.current = latest; setSaveState("conflict"); return
            /\ conflictRef' = r.body
            /\ saveState' = "conflict"
            /\ Finally(r.body)
            /\ reqs' = reqs \ {r}
            /\ UNCHANGED <<baseRevisionRef, lastSavedRef, lastSavedNameRef,
                           draftTimerRef, drafts>>
       ELSE IF r.status # 200
         THEN \* throw, caught: setSaveState("error")
              /\ saveState' = "error"
              /\ Finally(conflictRef)
              /\ reqs' = reqs \ {r}
              /\ UNCHANGED <<baseRevisionRef, lastSavedRef, lastSavedNameRef,
                             conflictRef, draftTimerRef, drafts>>
         ELSE /\ baseRevisionRef' = r.body.revision
              /\ lastSavedRef' = r.body.content
              /\ lastSavedNameRef' = r.body.name
              /\ saveState' = "idle"
              /\ UNCHANGED conflictRef
              /\ IF latestValueRef = r.body.content /\ latestNameRef = r.body.name
                   THEN \* await clearDraft(projectIdRef.current)
                        /\ drafts' = ClearDraft(projectIdRef)
                        /\ reqs' = Replace(r, [r EXCEPT !.pc = "clearing"])
                        /\ UNCHANGED <<savingRef, pendingSaveRef, debounceRef,
                                       maxFlushRef, draftTimerRef>>
                   ELSE /\ draftTimerRef' = ScheduleDraftWrite(
                               DraftRecord(projectIdRef, latestValueRef, latestNameRef,
                                           now, r.body.revision))
                        /\ Finally(conflictRef)
                        /\ reqs' = reqs \ {r}
                        /\ UNCHANGED drafts
  /\ UNCHANGED <<serverVars, nextReq, otherSent, projectIdRef, latestValueRef, latestNameRef>>
  /\ Aged(0)
  /\ lastAct' = IF r.status = 404 THEN "notFound" ELSE lastAct
  /\ UNCHANGED offerVars

\* clearDraft has settled: flush goes on to its finally block
ClearSettled(r) ==
  /\ r.pc = "clearing"
  /\ StoreSettles
  /\ Finally(conflictRef)
  /\ reqs' = reqs \ {r}
  /\ UNCHANGED <<serverVars, nextReq, otherSent, projectIdRef, latestValueRef, latestNameRef,
                 baseRevisionRef, lastSavedRef, lastSavedNameRef, conflictRef,
                 saveState, draftTimerRef, drafts>>
  /\ Aged(0)
  /\ UNCHANGED <<offerVars, lastAct>>

\* a rejected fetch after which the session takes the write for accepted
ClientNetworkErrorAdvances(r) ==
  /\ r.from = "client" /\ ~r.abandoned /\ r.pc # "clearing"
  /\ saveState' = "error"
  /\ baseRevisionRef' = baseRevisionRef + 1
  /\ Finally(conflictRef)
  /\ reqs' = Replace(r, [r EXCEPT !.abandoned = TRUE])
  /\ UNCHANGED <<serverVars, nextReq, otherSent, projectIdRef, latestValueRef, latestNameRef,
                 lastSavedRef, lastSavedNameRef, conflictRef, draftTimerRef, drafts>>
  /\ Aged(0)
  /\ UNCHANGED <<offerVars, lastAct>>

\* the fetch of a flush rejects (network failure, lost response): the request
\* may still be handled by the server
ClientNetworkError(r) ==
  /\ r.from = "client" /\ ~r.abandoned /\ r.pc # "clearing"
  /\ saveState' = "error"
  /\ Finally(conflictRef)
  /\ reqs' = Replace(r, [r EXCEPT !.abandoned = TRUE])
  /\ UNCHANGED <<serverVars, nextReq, otherSent, projectIdRef, latestValueRef, latestNameRef,
                 baseRevisionRef, lastSavedRef, lastSavedNameRef, conflictRef,
                 draftTimerRef, drafts>>
  /\ Aged(0)
  /\ UNCHANGED <<offerVars, lastAct>>

\* the draft timer fires: setDraft(draft)
DraftTimerFire ==
  /\ Due(draftTimerRef.left)
  /\ drafts' = SetDraft(draftTimerRef.draft)
  /\ draftTimerRef' = NoDraftTimer
  /\ undraftedFor' = Null
  /\ UNCHANGED <<serverVars, netVars, refVars, debounceRef, maxFlushRef, unsavedFor,
                 burst, indexedDB, clocked, offerVars, lastAct>>

\* a timer's remaining time after one quantum
Elapse(t) == IF t > 0 THEN t - Quantum ELSE t

\* time passes; a timer that is due fires before time passes further
Tick ==
  /\ clocked
  /\ debounceRef # 0 /\ maxFlushRef # 0 /\ draftTimerRef.left # 0
  /\ \/ Armed(debounceRef) \/ Armed(maxFlushRef) \/ Armed(draftTimerRef.left)
     \/ unsavedFor # Null
     \/ burst \notin {NoBurst, Unfollowed} /\ burst.quiet <= SAVE_DEBOUNCE_MS
  /\ debounceRef' = Elapse(debounceRef)
  /\ maxFlushRef' = Elapse(maxFlushRef)
  /\ draftTimerRef' = [draftTimerRef EXCEPT !.left = Elapse(@)]
  /\ UNCHANGED <<serverVars, netVars, refVars, drafts>>
  /\ Aged(Quantum)
  /\ UNCHANGED <<offerVars, lastAct>>

\* the effect on [project.id, ...]: the route now shows another project,
\* loaded by projectLoader; the draft lookup it starts fails at once without
\* IndexedDB
SwitchProject(id) ==
  /\ id # projectIdRef
  /\ Exists(id)
  /\ LET project == projects[id]
     IN /\ projectIdRef' = project.id
        /\ baseRevisionRef' = project.revision
        /\ lastSavedRef' = project.content
        /\ lastSavedNameRef' = project.name
        /\ latestValueRef' = project.content
        /\ latestNameRef' = project.name
  /\ conflictRef' = NoProject
  /\ savingRef' = FALSE
  /\ pendingSaveRef' = FALSE
  /\ saveState' = "idle"
  /\ debounceRef' = Null
  /\ maxFlushRef' = Null
  /\ UNCHANGED <<serverVars, netVars, draftTimerRef, drafts>>
  /\ Aged(0)
  /\ restoreDraft' = NoDraft
  /\ draftLoads' = IF DbOpens
                     THEN draftLoads \cup {[pc |-> "get", project |-> projects[id]]}
                     ELSE draftLoads
  /\ lastAct' = "switch"

\* handleReloadFromServer
ReloadFromServer ==
  /\ conflictRef # NoProject
  /\ conflictRef' = NoProject
  /\ baseRevisionRef' = conflictRef.revision
  /\ lastSavedRef' = conflictRef.content
  /\ lastSavedNameRef' = conflictRef.name
  /\ latestValueRef' = conflictRef.content
  /\ latestNameRef' = conflictRef.name
  /\ saveState' = "idle"
  /\ drafts' = ClearDraft(projectIdRef)
  /\ UNCHANGED <<serverVars, netVars, projectIdRef, savingRef, pendingSaveRef,
                 timerVars>>
  /\ Aged(0)
  /\ UNCHANGED offerVars
  /\ lastAct' = "reload"

\* an overwrite that takes the revision after the conflicting record's as its
\* base
OverwriteServerPastRecord ==
  /\ conflictRef # NoProject
  /\ conflictRef' = NoProject
  /\ baseRevisionRef' = conflictRef.revision + 1
  /\ Flush(NoProject, conflictRef.revision + 1, "idle", debounceRef, maxFlushRef)
  /\ UNCHANGED <<serverVars, projectIdRef, latestValueRef, latestNameRef,
                 lastSavedRef, lastSavedNameRef, draftTimerRef, drafts>>
  /\ Aged(0)
  /\ UNCHANGED offerVars
  /\ lastAct' = "overwrite"

\* handleOverwriteServer
OverwriteServer ==
  /\ conflictRef # NoProject
  /\ conflictRef' = NoProject
  /\ baseRevisionRef' = conflictRef.revision
  /\ Flush(NoProject, conflictRef.revision, "idle", debounceRef, maxFlushRef)
  /\ UNCHANGED <<serverVars, projectIdRef, latestValueRef, latestNameRef,
                 lastSavedRef, lastSavedNameRef, draftTimerRef, drafts>>
  /\ Aged(0)
  /\ UNCHANGED offerVars
  /\ lastAct' = "overwrite"

(* ------------------------------------------------------------------ *)
(* Specification                                                      *)
(* ------------------------------------------------------------------ *)

Init ==
  /\ projects = [id \in Ids |-> NewProject(id, 0)]
  /\ snapshots = {}
  /\ now = 0
  /\ reqs = {}
  /\ nextReq = 0
  /\ otherSent = 0
  /\ accepted = {}
  /\ written = Unrecorded
  /\ projectIdRef = "A"
  /\ latestValueRef = DEFAULT_CONTENT
  /\ latestNameRef = DEFAULT_NAME
  /\ baseRevisionRef = 0
  /\ lastSavedRef = DEFAULT_CONTENT
  /\ lastSavedNameRef = DEFAULT_NAME
  /\ savingRef = FALSE
  /\ pendingSaveRef = FALSE
  /\ conflictRef = NoProject
  /\ saveState = "idle"
  /\ debounceRef = Null
  /\ maxFlushRef = Null
  /\ draftTimerRef = NoDraftTimer
  /\ drafts = [id \in Ids |-> NoDraft]
  /\ unsavedFor = Null
  /\ undraftedFor = Null
  /\ burst = Unfollowed
  /\ restoreDraft = NoDraft
  /\ draftLoads = {}
  /\ lastAct = "start"
  /\ indexedDB = "undefined"
  /\ clocked = FALSE

\* the handlers of the server
ServerStep ==
  \/ \E r \in reqs : ServerUpdate(r)
  \/ \E r \in reqs : ServerConflict(r)
  \/ \E r \in reqs : SnapshotLookup(r)
  \/ \E r \in reqs : SnapshotInsert(r)

\* what the user and the timers do within one editing session
SessionStep ==
  \/ DebounceFire
  \/ MaxFire
  \/ \E reason \in {"blur", "retry"} : ExplicitFlush(reason)
  \/ \E r \in reqs : ClientReceive(r)
  \/ \E r \in reqs : ClearSettled(r)
  \/ DraftTimerFire
  \/ ReloadFromServer
  \/ OverwriteServer

\* a second tab, up to date with the server, saves an edit of its own
SecondTab(id) ==
  /\ otherSent < MaxTab
  /\ \E content \in OtherContents :
       OtherPatch(id, content, projects[id].name, projects[id].revision)

\* one editing session on one project, with a second tab editing the same
\* project; timers fire at any moment
Next ==
  \/ ServerStep
  \/ SessionStep
  \/ \E value \in Contents : Mutate(value, latestNameRef)
  \/ \E name \in NameInputs : Mutate(latestValueRef, name)
  \/ SecondTab(projectIdRef)
  \/ \E r \in reqs : OtherReceive(r)

Spec == Init /\ [][Next]_vars

\* the editing session moves between the projects; only contents are edited
NextSwitch ==
  \/ ServerStep
  \/ SessionStep
  \/ \E value \in Contents : Mutate(value, latestNameRef)
  \/ \E id \in Ids : SwitchProject(id)

SpecSwitch == Init /\ [][NextSwitch]_vars

\* the bodies of PATCH requests from any writers: content on any base revision
\* a document can have, content with or without a name on base revision 0, a
\* body without content, a body without baseRevision
AnyBodies ==
  {[content |-> c, name |-> NoName, base |-> v] :
     c \in OtherContents, v \in 0 .. (MaxWrites - 1)}
  \cup {[content |-> c, name |-> n, base |-> 0] : c \in OtherContents, n \in OtherNames}
  \cup {[content |-> NoContent, name |-> NoName, base |-> 0]}
  \cup {[content |-> c, name |-> NoName, base |-> NoBase] : c \in OtherContents}

\* the server alone, under PATCH requests with any body from any writers
NextServer ==
  \/ ServerStep
  \/ /\ otherSent < MaxWrites
     /\ \E id \in Ids, b \in AnyBodies : OtherPatch(id, b.content, b.name, b.base)
  \/ \E r \in reqs : OtherReceive(r)
  \/ ClockAdvance

SpecServer == Init /\ [][NextServer]_vars

\* the revision before the first one the snapshot cadence picks
BeforeCadence == SNAPSHOT_EVERY_N_REVISIONS - 1

\* the bodies writers of project A send: two contents, on the base revisions
\* from BeforeCadence on
SnapshotBodies ==
  {[content |-> c, name |-> NoName, base |-> v] :
     c \in OtherContents \cup {"a"},
     v \in BeforeCadence .. (BeforeCadence + MaxWrites - 1)}

\* the server with project A written BeforeCadence times within the last
\* seconds: its first write was snapshotted unless that insert failed
InitSnapshot ==
  /\ projects =
       [id \in Ids |->
          IF id = "A"
            THEN [NewProject(id, 0) EXCEPT !.revision = BeforeCadence, !.content = "b"]
            ELSE NewProject(id, 0)]
  /\ \E kept \in BOOLEAN :
       snapshots =
         IF kept
           THEN {[id |-> 0, projectId |-> "A", revision |-> 1, content |-> "b",
                  createdAt |-> 0]}
           ELSE {}
  /\ accepted = {[doc |-> "A", base |-> i, req |-> 0] : i \in 0 .. (BeforeCadence - 1)}
  /\ written = {[doc |-> "A", revision |-> i, content |-> "b"] : i \in 1 .. BeforeCadence}
  /\ now = 0
  /\ reqs = {}
  /\ nextReq = 0
  /\ otherSent = 0
  /\ projectIdRef = "A"
  /\ latestValueRef = DEFAULT_CONTENT
  /\ latestNameRef = DEFAULT_NAME
  /\ baseRevisionRef = 0
  /\ lastSavedRef = DEFAULT_CONTENT
  /\ lastSavedNameRef = DEFAULT_NAME
  /\ savingRef = FALSE
  /\ pendingSaveRef = FALSE
  /\ conflictRef = NoProject
  /\ saveState = "idle"
  /\ debounceRef = Null
  /\ maxFlushRef = Null
  /\ draftTimerRef = NoDraftTimer
  /\ drafts = [id \in Ids |-> NoDraft]
  /\ unsavedFor = Null
  /\ undraftedFor = Null
  /\ burst = Unfollowed
  /\ restoreDraft = NoDraft
  /\ draftLoads = {}
  /\ lastAct = "start"
  /\ indexedDB = "undefined"
  /\ clocked = FALSE

\* the server under PATCH requests on project A from any writers
NextSnapshot ==
  \/ ServerStep
  \/ /\ otherSent < MaxWrites
     /\ \E b \in SnapshotBodies : OtherPatch("A", b.content, b.name, b.base)
  \/ \E r \in reqs : OtherReceive(r)
  \/ ClockAdvance

SpecSnapshot == InitSnapshot /\ [][NextSnapshot]_vars

\* the bodies of PATCH requests to the API: content with and without a name, a
\* body without content, a body without baseRevision
ApiBodies ==
  {[content |-> c, name |-> n, base |-> 0] : c \in OtherContents, n \in OtherNames}
  \cup {[content |-> NoContent, name |-> NoName, base |-> 0]}
  \cup {[content |-> c, name |-> NoName, base |-> NoBase] : c \in OtherContents}

\* the server with project A created a while ago and no row under the
\* identifier B
InitApi ==
  /\ projects = [id \in Ids |-> IF id = "A" THEN NewProject(id, 0) ELSE NoProject]
  /\ snapshots = {}
  /\ now = ClockStep
  /\ reqs = {}
  /\ nextReq = 0
  /\ otherSent = 0
  /\ accepted = {}
  /\ written = {}
  /\ projectIdRef = "A"
  /\ latestValueRef = DEFAULT_CONTENT
  /\ latestNameRef = DEFAULT_NAME
  /\ baseRevisionRef = 0
  /\ lastSavedRef = DEFAULT_CONTENT
  /\ lastSavedNameRef = DEFAULT_NAME
  /\ savingRef = FALSE
  /\ pendingSaveRef = FALSE
  /\ conflictRef = NoProject
  /\ saveState = "idle"
  /\ debounceRef = Null
  /\ maxFlushRef = Null
  /\ draftTimerRef = NoDraftTimer
  /\ drafts = [id \in Ids |-> NoDraft]
  /\ unsavedFor = Null
  /\ undraftedFor = Null
  /\ burst = Unfollowed
  /\ restoreDraft = NoDraft
  /\ draftLoads = {}
  /\ lastAct = "start"
  /\ indexedDB = "undefined"
  /\ clocked = FALSE

\* the API under POST requests and PATCH requests with any body on any
\* identifier
NextApi ==
  \/ ServerStep
  \/ \E id \in Ids, name \in CreateNames : CreateProject(id, name)
  \/ /\ otherSent < MaxWrites
     /\ \E id \in Ids, b \in ApiBodies : OtherPatch(id, b.content, b.name, b.base)
  \/ \E r \in reqs : OtherReceive(r)

SpecApi == InitApi /\ [][NextApi]_vars

\* one editing session with time counted in quanta
InitTimed ==
  /\ projects = [id \in Ids |-> NewProject(id, 0)]
  /\ snapshots = {}
  /\ now = 0
  /\ reqs = {}
  /\ nextReq = 0
  /\ otherSent = 0
  /\ accepted = {}
  /\ written = Unrecorded
  /\ projectIdRef = "A"
  /\ latestValueRef = DEFAULT_CONTENT
  /\ latestNameRef = DEFAULT_NAME
  /\ baseRevisionRef = 0
  /\ lastSavedRef = DEFAULT_CONTENT
  /\ lastSavedNameRef = DEFAULT_NAME
  /\ savingRef = FALSE
  /\ pendingSaveRef = FALSE
  /\ conflictRef = NoProject
  /\ saveState = "idle"
  /\ debounceRef = Null
  /\ maxFlushRef = Null
  /\ draftTimerRef = NoDraftTimer
  /\ drafts = [id \in Ids |-> NoDraft]
  /\ unsavedFor = Null
  /\ undraftedFor = Null
  /\ burst = Unfollowed
  /\ restoreDraft = NoDraft
  /\ draftLoads = {}
  /\ lastAct = "start"
  /\ indexedDB = "undefined"
  /\ clocked = TRUE

NextTimed ==
  \/ ServerStep
  \/ SessionStep
  \/ \E value \in Contents : Mutate(value, latestNameRef)
  \/ \E name \in NameInputs : Mutate(latestValueRef, name)
  \/ Tick

SpecTimed == InitTimed /\ [][NextTimed]_vars

\* one editing session on one project whose fetches may fail: the request is
\* lost, or it reaches the server and the response is lost
NextFail ==
  \/ ServerStep
  \/ SessionStep
  \/ \E value \in Contents : Mutate(value, latestNameRef)
  \/ \E r \in reqs : ClientNetworkError(r)
  \/ \E r \in reqs : OtherReceive(r)

SpecFail == Init /\ [][NextFail]_vars

\* other sessions on the same project, each up to date with the server when it
\* saves, one save of theirs outstanding at a time
OtherWriter(id) ==
  /\ otherSent < MaxWrites
  /\ \A r \in reqs : r.from = "client"
  /\ \E content \in OtherContents :
       OtherPatch(id, content, projects[id].name, projects[id].revision)

\* the row of project A after another session's first write, made at time 0
MetRecord == [NewProject("A", 0) EXCEPT !.content = "b", !.revision = 1]

\* a session that has just opened project A, or one that edited it, sent its
\* PATCH on base revision 0 after another session's write and holds the record
\* of the 409
InitContend ==
  /\ \E met \in BOOLEAN :
       /\ projects = [id \in Ids |-> IF met /\ id = "A" THEN MetRecord
                                                        ELSE NewProject(id, 0)]
       /\ snapshots = IF met
                        THEN {[id |-> 0, projectId |-> "A", revision |-> 1,
                               content |-> "b", createdAt |-> 0]}
                        ELSE {}
       /\ accepted = IF met THEN {[doc |-> "A", base |-> 0, req |-> 0]} ELSE {}
       /\ latestValueRef = IF met THEN "a" ELSE DEFAULT_CONTENT
       /\ conflictRef = IF met THEN MetRecord ELSE NoProject
       /\ saveState = IF met THEN "conflict" ELSE "idle"
       /\ lastAct = IF met THEN "mutate" ELSE "start"
  /\ written = Unrecorded
  /\ now = 0
  /\ reqs = {}
  /\ nextReq = 0
  /\ otherSent = 0
  /\ projectIdRef = "A"
  /\ latestNameRef = DEFAULT_NAME
  /\ baseRevisionRef = 0
  /\ lastSavedRef = DEFAULT_CONTENT
  /\ lastSavedNameRef = DEFAULT_NAME
  /\ savingRef = FALSE
  /\ pendingSaveRef = FALSE
  /\ debounceRef = Null
  /\ maxFlushRef = Null
  /\ draftTimerRef = NoDraftTimer
  /\ drafts = [id \in Ids |-> NoDraft]
  /\ unsavedFor = Null
  /\ undraftedFor = Null
  /\ burst = Unfollowed
  /\ restoreDraft = NoDraft
  /\ draftLoads = {}
  /\ indexedDB = "undefined"
  /\ clocked = FALSE

\* one editing session on one project that other sessions keep writing to
NextContend ==
  \/ ServerStep
  \/ SessionStep
  \/ \E value \in Contents : Mutate(value, latestNameRef)
  \/ OtherWriter(projectIdRef)
  \/ \E r \in reqs : OtherReceive(r)

SpecContend == InitContend /\ [][NextContend]_vars

\* one editing session with time counted, in a browser with IndexedDB, whose
\* bursts of mutations and draft writes are followed
InitBurst ==
  /\ projects = [id \in Ids |-> NewProject(id, 0)]
  /\ snapshots = {}
  /\ now = 0
  /\ reqs = {}
  /\ nextReq = 0
  /\ otherSent = 0
  /\ accepted = {}
  /\ written = Unrecorded
  /\ projectIdRef = "A"
  /\ latestValueRef = DEFAULT_CONTENT
  /\ latestNameRef = DEFAULT_NAME
  /\ baseRevisionRef = 0
  /\ lastSavedRef = DEFAULT_CONTENT
  /\ lastSavedNameRef = DEFAULT_NAME
  /\ savingRef = FALSE
  /\ pendingSaveRef = FALSE
  /\ conflictRef = NoProject
  /\ saveState = "idle"
  /\ debounceRef = Null
  /\ maxFlushRef = Null
  /\ draftTimerRef = NoDraftTimer
  /\ drafts = [id \in Ids |-> NoDraft]
  /\ unsavedFor = Null
  /\ undraftedFor = Null
  /\ burst = NoBurst
  /\ restoreDraft = NoDraft
  /\ draftLoads = {}
  /\ lastAct = "start"
  /\ indexedDB = "defined"
  /\ clocked = TRUE

\* the user only types; the timers, the server and the fetch do the rest
NextBurst ==
  \/ ServerStep
  \/ DebounceFire
  \/ MaxFire
  \/ \E r \in reqs : ClientReceive(r)
  \/ \E r \in reqs : ClearSettled(r)
  \/ DraftTimerFire
  \/ \E value \in Contents : Mutate(value, latestNameRef)
  \/ Tick

SpecBurst == InitBurst /\ [][NextBurst]_vars

\* one editing session on project A, whose row may have been removed from the
\* database since the session loaded it
InitNotFound ==
  /\ \E gone \in SUBSET {"A"} :
       projects = [id \in Ids |-> IF id \in gone THEN NoProject ELSE NewProject(id, 0)]
  /\ snapshots = {}
  /\ now = 0
  /\ reqs = {}
  /\ nextReq = 0
  /\ otherSent = 0
  /\ accepted = {}
  /\ written = Unrecorded
  /\ projectIdRef = "A"
  /\ latestValueRef = DEFAULT_CONTENT
  /\ latestNameRef = DEFAULT_NAME
  /\ baseRevisionRef = 0
  /\ lastSavedRef = DEFAULT_CONTENT
  /\ lastSavedNameRef = DEFAULT_NAME
  /\ savingRef = FALSE
  /\ pendingSaveRef = FALSE
  /\ conflictRef = NoProject
  /\ saveState = "idle"
  /\ debounceRef = Null
  /\ maxFlushRef = Null
  /\ draftTimerRef = NoDraftTimer
  /\ drafts = [id \in Ids |-> NoDraft]
  /\ unsavedFor = Null
  /\ undraftedFor = Null
  /\ burst = Unfollowed
  /\ restoreDraft = NoDraft
  /\ draftLoads = {}
  /\ lastAct = "start"
  /\ indexedDB = "undefined"
  /\ clocked = FALSE

SpecNotFound == InitNotFound /\ [][Next]_vars

\* one editing session in a browser whose IndexedDB works, is missing, or
\* never answers
InitStore ==
  /\ projects = [id \in Ids |-> NewProject(id, 0)]
  /\ snapshots = {}
  /\ now = 0
  /\ reqs = {}
  /\ nextReq = 0
  /\ otherSent = 0
  /\ accepted = {}
  /\ written = Unrecorded
  /\ projectIdRef = "A"
  /\ latestValueRef = DEFAULT_CONTENT
  /\ latestNameRef = DEFAULT_NAME
  /\ baseRevisionRef = 0
  /\ lastSavedRef = DEFAULT_CONTENT
  /\ lastSavedNameRef = DEFAULT_NAME
  /\ savingRef = FALSE
  /\ pendingSaveRef = FALSE
  /\ conflictRef = NoProject
  /\ saveState = "idle"
  /\ debounceRef = Null
  /\ maxFlushRef = Null
  /\ draftTimerRef = NoDraftTimer
  /\ drafts = [id \in Ids |-> NoDraft]
  /\ unsavedFor = Null
  /\ undraftedFor = Null
  /\ burst = Unfollowed
  /\ restoreDraft = NoDraft
  /\ draftLoads = {}
  /\ lastAct = "start"
  /\ indexedDB \in {"defined", "undefined", "hangs"}
  /\ clocked = FALSE

\* the user types; the timers, the server, the fetch and the store do the rest
NextStore ==
  \/ ServerStep
  \/ DebounceFire
  \/ MaxFire
  \/ \E r \in reqs : ClientReceive(r)
  \/ \E r \in reqs : ClearSettled(r)
  \/ DraftTimerFire
  \/ \E value \in Contents : Mutate(value, latestNameRef)

\* a promise that can settle does settle: flush resumes after its await
SpecStore ==
  InitStore /\ [][NextStore]_vars /\ WF_vars(\E r \in reqs : ClearSettled(r))

\* the drafts an earlier session on project A may have left in the store: none,
\* or any content and name written before or after the project's last update
StoredDrafts ==
  {NoDraft} \cup {DraftRecord("A", c, n, t, 0) :
                    c \in Contents, n \in NameInputs, t \in {0, ClockStep}}

\* a session starts on project A in a browser with IndexedDB: the draft lookup
\* of the session start is in progress
InitDraft ==
  /\ projects = [id \in Ids |-> NewProject(id, 0)]
  /\ snapshots = {}
  /\ now = ClockStep
  /\ reqs = {}
  /\ nextReq = 0
  /\ otherSent = 0
  /\ accepted = {}
  /\ written = Unrecorded
  /\ projectIdRef = "A"
  /\ latestValueRef = DEFAULT_CONTENT
  /\ latestNameRef = DEFAULT_NAME
  /\ baseRevisionRef = 0
  /\ lastSavedRef = DEFAULT_CONTENT
  /\ lastSavedNameRef = DEFAULT_NAME
  /\ savingRef = FALSE
  /\ pendingSaveRef = FALSE
  /\ conflictRef = NoProject
  /\ saveState = "idle"
  /\ debounceRef = Null
  /\ maxFlushRef = Null
  /\ draftTimerRef = NoDraftTimer
  /\ \E d \in StoredDrafts : drafts = [id \in Ids |-> IF id = "A" THEN d ELSE NoDraft]
  /\ unsavedFor = Null
  /\ undraftedFor = Null
  /\ burst = Unfollowed
  /\ restoreDraft = NoDraft
  /\ draftLoads = {[pc |-> "get", project |-> NewProject("A", 0)]}
  /\ lastAct = "start"
  /\ indexedDB = "defined"
  /\ clocked = FALSE

\* the restore prompt and the draft lookup behind it
OfferStep ==
  \/ \E l \in draftLoads : DraftGet(l)
  \/ \E l \in draftLoads : DraftStaleClear(l)
  \/ RestoreDraft
  \/ DiscardDraft

\* one editing session with the drafts store in use
NextDraft ==
  \/ ServerStep
  \/ SessionStep
  \/ OfferStep
  \/ \E value \in Contents : Mutate(value, latestNameRef)
  \/ SecondTab(projectIdRef)
  \/ \E r \in reqs : OtherReceive(r)

SpecDraft == InitDraft /\ [][NextDraft]_vars

\* the session start followed by switches between the projects while draft
\* lookups are in progress; the user answers the offers and types
NextOffer ==
  \/ OfferStep
  \/ \E id \in Ids : SwitchProject(id)
  \/ \E value \in Contents : Mutate(value, latestNameRef)
  \/ DraftTimerFire

SpecOffer == InitDraft /\ [][NextOffer]_vars

\* the same session start with no other writer, in which the user only answers
\* the offer and types, and the timers, the server and the fetch do the rest
NextRestore ==
  \/ ServerStep
  \/ DebounceFire
  \/ MaxFire
  \/ \E r \in reqs : ClientReceive(r)
  \/ \E r \in reqs : ClearSettled(r)
  \/ DraftTimerFire
  \/ OfferStep
  \/ \E value \in Contents : Mutate(value, latestNameRef)

SpecRestore == InitDraft /\ [][NextRestore]_vars

(* ------------------------------------------------------------------ *)
(* Properties of the server                                           *)
(* ------------------------------------------------------------------ *)

\* the body carries a string content and an integer baseRevision
WellFormed(r) == r.content # NoContent /\ r.base # NoBase

\* the compare-and-swap UPDATE of request r changed the row
Won(r) == [doc |-> r.doc, base |-> r.base, req |-> r.id] \in accepted

\* the requests the server has taken out of r's state in this step
Handled(r) == r \in reqs /\ r \notin reqs' /\ \E r2 \in reqs' : r2.id = r.id

After(r) == CHOOSE r2 \in reqs' : r2.id = r.id

\* C1: a document's revision starts at 0 and is at every moment the number of
\* writes accepted for it, the accepted writes having had the base revisions
\* 0, 1, 2, ... in turn: each accepted write adds exactly 1, a rejected write
\* adds nothing, and the revision never decreases, resets or skips a value
RevisionCountsAcceptedWrites ==
  \A id \in Ids :
    LET own == {a \in accepted : a.doc = id}
    IN /\ projects[id].revision = Cardinality(own)
       /\ {a.base : a \in own} = 0 .. (projects[id].revision - 1)

\* a document has taken two writes one after the other
TwoWritesAccepted ==
  \E id \in Ids :
    /\ projects[id].revision = 2
    /\ \E a, b \in accepted : a.doc = id /\ b.doc = id /\ a.base = 0 /\ b.base = 1

\* C2: a well-formed PATCH reaching the UPDATE with a baseRevision other than
\* the row's revision changes no row and no snapshot and goes on to the
\* re-select, which answers 409 with the row as it is then, again changing
\* nothing
StaleWriteConflicts ==
  [][\A r \in reqs :
       /\ (Handled(r) /\ r.pc = "sent" /\ WellFormed(r)
             /\ r.base # projects[r.doc].revision)
          => /\ UNCHANGED <<projects, snapshots, accepted>>
             /\ After(r).pc = "missed"
       /\ (Handled(r) /\ r.pc = "missed")
          => /\ UNCHANGED <<projects, snapshots, accepted>>
             /\ After(r).pc = "resp"
             /\ After(r).status = 409
             /\ After(r).body = projects[r.doc]]_vars

\* a stale PATCH has been answered 409 with a record newer than its base, and
\* the document still is that record and has no snapshot by that request
StaleWriteAnswered ==
  \E r \in reqs :
    /\ r.pc = "resp" /\ r.status = 409
    /\ r.body = projects[r.doc]
    /\ r.body.revision > r.base
    /\ \A s \in snapshots : s.id # r.id

\* C3: no two accepted writes share a document and a base revision; a request
\* answered 200 is an accepted one, a request answered 409 is not, and a
\* well-formed request answered after another request won its base revision
\* has 409
AtMostOneWins ==
  /\ \A a, b \in accepted : (a.doc = b.doc /\ a.base = b.base) => a.req = b.req
  /\ \A r \in reqs :
       /\ r.status = 200 => Won(r)
       /\ r.status = 409 => ~Won(r)
       /\ (r.pc = "resp" /\ WellFormed(r) /\ ~Won(r)
             /\ \E a \in accepted : a.doc = r.doc /\ a.base = r.base)
          => r.status = 409

\* two requests carried the same document and base revision: one has 200,
\* the other 409
OneWinsOneConflicts ==
  \E r1, r2 \in reqs :
    /\ r1.id # r2.id /\ r1.doc = r2.doc /\ r1.base = r2.base
    /\ r1.pc = "resp" /\ r1.status = 200
    /\ r2.pc = "resp" /\ r2.status = 409

\* C9: a PATCH whose compare-and-swap changed the row is answered 200 with the
\* updated record, whatever becomes of the snapshot statements after it
AcceptedWriteAnswers200 ==
  \A r \in reqs :
    (r.pc = "resp" /\ Won(r)) => (r.status = 200 /\ r.body.revision = r.base + 1)

(* ------------------------------------------------------------------ *)
(* Properties of the save scheduler                                   *)
(* ------------------------------------------------------------------ *)

\* the PATCH requests of the editing session whose fetch has not resolved
InFlight(id) == {r \in reqs : r.from = "client" /\ r.doc = id /\ r.pc # "clearing"}

\* the server-save timers
SaveTimerArmed == Armed(debounceRef) \/ Armed(maxFlushRef)

\* C4: at every moment at most one PATCH of the editing session is in flight
\* for a document
OnePatchInFlight == \A id \in Ids : Cardinality(InFlight(id)) <= 1

\* C5: while the scheduler holds a conflict record it shows the conflict state
\* and no server-save timer is armed; as long as it stays on the document it
\* sends no PATCH and keeps the same record, and it lets go of the record only
\* by Reload or Overwrite, both of which adopt the record's revision
ConflictHalts ==
  [][conflictRef # NoProject =>
       /\ saveState = "conflict"
       /\ ~SaveTimerArmed
       /\ projectIdRef' = projectIdRef =>
            /\ conflictRef' # NoProject =>
                 /\ conflictRef' = conflictRef
                 /\ saveState' = "conflict"
                 /\ \A r \in reqs' \ reqs : r.from # "client"
            /\ conflictRef' = NoProject => baseRevisionRef' = conflictRef.revision]_vars

\* C6: once no second tab has written, nothing is in flight, no server-save
\* timer is armed and the last flush succeeded, the server's content is the
\* content of the editing buffer
SettledBufferIsOnServer ==
  (otherSent = 0 /\ reqs = {} /\ ~SaveTimerArmed /\ saveState = "idle")
    => projects[projectIdRef].content = latestValueRef

\* C7: the buffer never stays unsaved for more than SAVE_MAX_INTERVAL_MS after
\* the first unsaved mutation made while no flush was in flight and no conflict
\* was open, without a PATCH being sent
FlushWithinMaxInterval == unsavedFor <= SAVE_MAX_INTERVAL_MS

\* C8: the completion of a flush that was issued for another document than the
\* one the session shows leaves the revision, the baselines, the latest values,
\* the conflict record, the in-flight flag and the draft store as they are
StaleCompletionIgnored ==
  [][\A r \in reqs :
       (r.from = "client" /\ r.pc = "resp" /\ r.doc # projectIdRef
          /\ r \notin reqs' /\ projectIdRef' = projectIdRef)
       => UNCHANGED <<baseRevisionRef, lastSavedRef, lastSavedNameRef, latestValueRef,
                      latestNameRef, conflictRef, savingRef, drafts>>]_vars

\* C10: a step that clears the conflict and keeps local values that differ
\* from the server's record adopts the record's revision and sends a PATCH
\* with the local content and name on that revision
OverwriteSendsLocal ==
  [][(/\ conflictRef # NoProject
      /\ conflictRef' = NoProject
      /\ projectIdRef' = projectIdRef
      /\ <<latestValueRef, latestNameRef>> # <<conflictRef.content, conflictRef.name>>
      /\ <<latestValueRef', latestNameRef'>> = <<latestValueRef, latestNameRef>>)
     => /\ baseRevisionRef' = conflictRef.revision
        /\ \E r \in reqs' \ reqs :
             /\ r.from = "client" /\ r.doc = projectIdRef /\ r.pc = "sent"
             /\ r.content = latestValueRef /\ r.name = latestNameRef
             /\ r.base = conflictRef.revision]_vars

(* ------------------------------------------------------------------ *)
(* Properties of conflict resolution, drafts and failures             *)
(* ------------------------------------------------------------------ *)

\* the step is handleReloadFromServer
ReloadStep == conflictRef # NoProject /\ conflictRef' = NoProject /\ lastAct' = "reload"

\* C11: Reload server copy makes the latest values, the saved baselines and
\* baseRevision the conflict record's content, name and revision and the save
\* state idle, and from then on, until the user does something else, the
\* draft store has no entry for the document
ReloadAdoptsServerCopy ==
  [][/\ ReloadStep =>
          /\ <<latestValueRef', latestNameRef'>> = <<conflictRef.content, conflictRef.name>>
          /\ <<lastSavedRef', lastSavedNameRef'>> = <<conflictRef.content, conflictRef.name>>
          /\ baseRevisionRef' = conflictRef.revision
          /\ saveState' = "idle"
     /\ lastAct' = "reload" => drafts'[projectIdRef'] = NoDraft]_vars

\* the step takes the 200 answer of request r into the session
SuccessStep(r) ==
  r \in reqs /\ r.from = "client" /\ r.pc = "resp" /\ r.status = 200 /\ r \notin reqs'

\* the step is the draft timer's callback
DraftTimerStep == draftTimerRef # NoDraftTimer /\ draftTimerRef' = NoDraftTimer

\* C12: a flush's 200 makes baseRevision and the saved baselines the
\* response's revision, content and name; if the latest content and name
\* equal them the document's draft is deleted from the store, otherwise a
\* write of a draft with the latest content and name and the new baseRevision
\* is scheduled; and the draft timer's callback puts the scheduled draft in
\* the store
SuccessUpdatesBaselineAndDraft ==
  [][/\ \A r \in reqs : SuccessStep(r) =>
          /\ baseRevisionRef' = r.body.revision
          /\ <<lastSavedRef', lastSavedNameRef'>> = <<r.body.content, r.body.name>>
          /\ IF <<latestValueRef, latestNameRef>> = <<r.body.content, r.body.name>>
               THEN drafts'[projectIdRef] = NoDraft
               ELSE /\ draftTimerRef'.left = DRAFT_DEBOUNCE_MS
                    /\ draftTimerRef'.draft.projectId = projectIdRef
                    /\ draftTimerRef'.draft.content = latestValueRef
                    /\ draftTimerRef'.draft.name = latestNameRef
                    /\ draftTimerRef'.draft.baseRevision = r.body.revision
     /\ DraftTimerStep =>
          drafts'[draftTimerRef.draft.projectId] = draftTimerRef.draft]_vars

\* a flush of an edit has succeeded with the buffer equal to the response:
\* the baseline is the response's and the store has no draft for the document
DraftDeletedOnSuccess ==
  \E r \in reqs :
    /\ r.from = "client" /\ r.pc = "clearing"
    /\ baseRevisionRef = r.body.revision
    /\ latestValueRef = r.body.content /\ latestValueRef # DEFAULT_CONTENT
    /\ draftTimerRef = NoDraftTimer
    /\ drafts[projectIdRef] = NoDraft

\* a save timer's callback runs in this step
SaveTimerStep ==
  \/ debounceRef' = Fired /\ debounceRef # Fired
  \/ maxFlushRef' = Fired /\ maxFlushRef # Fired

\* C13: while the buffer's content and name equal the saved baseline no step
\* sends a PATCH of the session, and a flush run by a save timer leaves the
\* refs, the save state, the other timers and the drafts as they were (a
\* flush run by blur or Retry on such a buffer changes nothing at all)
CleanFlushIsNoOp ==
  [][~Dirty(latestValueRef, latestNameRef, lastSavedRef, lastSavedNameRef)
       => /\ \A r \in reqs' : r.from = "client" => \E q \in reqs : q.id = r.id
          /\ SaveTimerStep
               => /\ UNCHANGED <<refVars, netVars, draftTimerRef, drafts>>
                  /\ debounceRef' = debounceRef \/ maxFlushRef' = maxFlushRef]_vars

\* the debounce timer has run flush on a buffer typed back to the saved text:
\* nothing was sent
CleanFlushSentNothing ==
  /\ debounceRef = Fired
  /\ ~Dirty(latestValueRef, latestNameRef, lastSavedRef, lastSavedNameRef)
  /\ conflictRef = NoProject /\ ~savingRef
  /\ nextReq = otherSent
  /\ saveState = "idle"

\* the flush that sent r ends in this step with a failure other than 409: a
\* response that is neither 200 nor 409 is taken in, or the fetch rejects
FailedStep(r) ==
  /\ r.from = "client" /\ ~r.abandoned
  /\ \/ r.pc = "resp" /\ r.status \notin {200, 409} /\ r \notin reqs'
     \/ [r EXCEPT !.abandoned = TRUE] \in reqs'

\* the PATCH requests the session sends in this step
SentNow == {q \in reqs' : q.from = "client" /\ ~\E p \in reqs : p.id = q.id}

\* C14: a flush that ends with a failure other than 409 leaves the save state
\* error and the base revision (still the one it sent), the saved baseline and
\* the buffer as they were; while the state is error the base revision stays,
\* and a PATCH sent then carries the buffer's content and name and that base
\* revision
FailureKeepsBaseline ==
  [][/\ \A r \in reqs :
          FailedStep(r)
            => /\ saveState' = "error"
               /\ baseRevisionRef = r.base
               /\ UNCHANGED <<baseRevisionRef, lastSavedRef, lastSavedNameRef,
                              latestValueRef, latestNameRef>>
     /\ saveState = "error"
          => /\ baseRevisionRef' = baseRevisionRef
             /\ \A q \in SentNow :
                  /\ q.base = baseRevisionRef
                  /\ q.content = latestValueRef'
                  /\ q.name = latestNameRef']_vars

\* the fetch of a flush was rejected and a flush triggered later has sent the
\* buffer again on the same base revision
ResentAfterFailure ==
  \E p, q \in reqs :
    /\ p.from = "client" /\ p.abandoned
    /\ q.from = "client" /\ ~q.abandoned /\ q.pc = "sent"
    /\ q.id > p.id
    /\ q.base = p.base /\ q.base = baseRevisionRef
    /\ q.content = latestValueRef
    /\ saveState = "saving"

\* C15: a flush that ends with a failure other than 409 leaves no save timer
\* armed, so that the next PATCH waits for a later mutation or an explicit
\* flush, and it leaves the buffer as it was
NoTimerAfterFailure ==
  [][\A r \in reqs :
       FailedStep(r)
         => /\ ~Armed(debounceRef') /\ ~Armed(maxFlushRef')
            /\ UNCHANGED <<latestValueRef, latestNameRef>>]_vars

\* C15, amended: a flush that ends with a failure other than 409 starts the
\* debounce timer when a mutation arrived while a flush was in flight (and no
\* conflict is open) and otherwise leaves the save timers alone, and it leaves
\* the buffer as it was;
\* while the save state is error a save timer that is not armed becomes armed
\* only in a step that changes the buffer, or in which a flush completes while
\* a mutation is pending
TimerAfterFailureOnlyIfPending ==
  [][/\ \A r \in reqs :
          FailedStep(r)
            => /\ IF pendingSaveRef /\ conflictRef = NoProject
                    THEN debounceRef' = SAVE_DEBOUNCE_MS
                    ELSE UNCHANGED <<debounceRef, maxFlushRef>>
               /\ UNCHANGED <<latestValueRef, latestNameRef>>
     /\ (/\ saveState = "error"
         /\ \/ ~Armed(debounceRef) /\ Armed(debounceRef')
            \/ ~Armed(maxFlushRef) /\ Armed(maxFlushRef'))
          => \/ <<latestValueRef', latestNameRef'>> # <<latestValueRef, latestNameRef>>
             \/ pendingSaveRef /\ \E r \in reqs : r.from = "client" /\ r \notin reqs']_vars

\* a flush of an edit has failed with no mutation pending: the edit is still in
\* the buffer, unsaved, and no save timer is armed
FailedAndIdle ==
  /\ saveState = "error"
  /\ ~savingRef /\ ~pendingSaveRef
  /\ ~Armed(debounceRef) /\ ~Armed(maxFlushRef)
  /\ Dirty(latestValueRef, latestNameRef, lastSavedRef, lastSavedNameRef)
  /\ nextReq > 0

\* the draft differs from the project in content or name
Differs(draft, project) ==
  draft.content # project.content \/ draft.name # project.name

\* C16: once the draft lookup of the session start has finished, and before
\* the user does anything, a draft is on offer exactly when the store held one
\* that is newer than the loaded project and differs from it in content or
\* name, and when none is on offer the store holds no draft for the project
StaleDraftRemoved ==
  LET project == NewProject("A", 0)
      draft == drafts["A"]
  IN (lastAct = "start" /\ draftLoads = {})
       => /\ restoreDraft # NoDraft
               <=> /\ draft # NoDraft
                   /\ draft.updatedAt > project.updatedAt
                   /\ Differs(draft, project)
          /\ restoreDraft # NoDraft => restoreDraft = draft
          /\ restoreDraft = NoDraft => draft = NoDraft

\* the user restores the draft on offer in this step
RestoreStep ==
  /\ restoreDraft # NoDraft
  /\ restoreDraft' = NoDraft
  /\ lastAct' = "restore"

\* C17: restoring the draft on offer makes the buffer's content and name the
\* draft's; as the first action of a session it leaves the buffer unsaved; if
\* it changed the buffer and left it unsaved, a draft write of the restored
\* content and name is scheduled and, with no conflict open, the debounce
\* timer is started, or the pending flag set when a flush is in flight; and
\* every PATCH the session sends carries the buffer's content and name
RestoreSchedulesAutosave ==
  [][/\ RestoreStep
          => /\ latestValueRef' = restoreDraft.content
             /\ latestNameRef' = restoreDraft.name
             /\ lastAct = "start"
                  => /\ <<latestValueRef', latestNameRef'>> # <<latestValueRef, latestNameRef>>
                     /\ Dirty(latestValueRef', latestNameRef', lastSavedRef', lastSavedNameRef')
             /\ (/\ <<latestValueRef', latestNameRef'>> # <<latestValueRef, latestNameRef>>
                 /\ Dirty(latestValueRef', latestNameRef', lastSavedRef', lastSavedNameRef'))
                  => /\ draftTimerRef'.left = DRAFT_DEBOUNCE_MS
                     /\ draftTimerRef'.draft.content = restoreDraft.content
                     /\ draftTimerRef'.draft.name = restoreDraft.name
                     /\ conflictRef = NoProject
                          => IF savingRef THEN pendingSaveRef'
                             ELSE debounceRef' = SAVE_DEBOUNCE_MS
     /\ \A q \in SentNow :
          q.content = latestValueRef' /\ q.name = latestNameRef']_vars

\* the draft was restored and, with nothing else done, the PATCH of the
\* restored content and name is on its way
RestoredDraftSent ==
  /\ lastAct = "restore"
  /\ saveState = "saving"
  /\ \E q \in reqs :
       /\ q.from = "client" /\ q.pc = "sent"
       /\ q.content = "a" /\ q.name = <<"n", " ">>
       /\ q.content = latestValueRef /\ q.name = latestNameRef
       /\ q.base = 0

\* C18: when the flush that carried a restored draft's content and name
\* succeeds, and no other writer has saved since, fetching the document returns
\* the restored content and name
RestoredDraftRoundTrips ==
  [][\A r \in reqs :
       (/\ SuccessStep(r)
        /\ lastAct = "restore"
        /\ r.content = latestValueRef /\ r.name = latestNameRef
        /\ projects[r.doc].revision = r.body.revision)
         => /\ GetProject(r.doc)'.content = latestValueRef
            /\ GetProject(r.doc)'.name = latestNameRef]_vars

(* ------------------------------------------------------------------ *)
(* Properties of bursts of mutations                                  *)
(* ------------------------------------------------------------------ *)

\* C20: a mutation that left the buffer different from the saved baseline is
\* followed by a write to the drafts store within DRAFT_DEBOUNCE_MS, whatever
\* mutations come after it
DraftWithinDebounce == undraftedFor <= DRAFT_DEBOUNCE_MS

\* a burst that began in a clean idle session has ended: more than
\* SAVE_DEBOUNCE_MS have passed since its last mutation
BurstOver == burst.quiet > SAVE_DEBOUNCE_MS

\* C19: a burst of mutations that began in a clean idle session and was
\* followed by SAVE_DEBOUNCE_MS without mutations has produced exactly one PATCH
BurstSendsOnePatch == BurstOver => burst.sent = 1

\* a burst that took less than SAVE_MAX_INTERVAL_MS from its first to its last
\* mutation, began with no save timer armed and left the buffer different from
\* the saved baseline
ShortBurst ==
  /\ burst \notin {NoBurst, Unfollowed}
  /\ burst.span < SAVE_MAX_INTERVAL_MS
  /\ ~burst.timers
  /\ burst.dirty

\* C19, amended: a burst of mutations that begins in a clean idle session with
\* no save timer armed, takes less than SAVE_MAX_INTERVAL_MS, leaves the buffer
\* different from the saved baseline and is followed by SAVE_DEBOUNCE_MS with
\* no mutation and no other flush trigger produces exactly one PATCH; that
\* PATCH carries the final content and name and the base revision last
\* received, which is the server's; the server stores its content at that
\* revision plus one, and a 200 response carries that revision and content
ShortBurstSendsOnePatch ==
  /\ []((BurstOver /\ ShortBurst)
          => /\ burst.sent = 1
             /\ \A r \in reqs :
                  r.from = "client"
                    => /\ r.content = latestValueRef /\ r.name = latestNameRef
                       /\ r.pc # "sent"
                            => /\ projects[r.doc].revision = r.base + 1
                               /\ projects[r.doc].content = r.content
                       /\ (r.pc = "resp" /\ r.status = 200)
                            => /\ r.body.revision = r.base + 1
                               /\ r.body.content = r.content)
  /\ [][ShortBurst'
          => \A q \in SentNow :
               /\ q.content = latestValueRef' /\ q.name = latestNameRef'
               /\ q.base = baseRevisionRef
               /\ q.base = projects[q.doc].revision
               /\ burst'.quiet >= SAVE_DEBOUNCE_MS \/ burst'.span + burst'.quiet >= SAVE_MAX_INTERVAL_MS]_vars

\* a burst of several mutations has ended, its one PATCH was accepted and
\* answered, and the session is idle again on the new revision
BurstSaved ==
  /\ BurstOver /\ ShortBurst
  /\ burst.span > 0
  /\ burst.sent = 1
  /\ reqs = {}
  /\ saveState = "idle"
  /\ baseRevisionRef = 1
  /\ projects[projectIdRef].revision = 1
  /\ projects[projectIdRef].content = latestValueRef
  /\ latestValueRef = "a"

(* ------------------------------------------------------------------ *)
(* Properties of the draft store's failures                           *)
(* ------------------------------------------------------------------ *)

\* C21: whatever the draft store does, a flush whose PATCH was answered 200
\* completes: the in-flight flag it holds while it clears the draft is released
FlushCompletesWithoutStore ==
  (\E r \in reqs : r.from = "client" /\ r.pc = "clearing") ~> ~savingRef

(* ------------------------------------------------------------------ *)
(* Properties of the snapshot policy                                  *)
(* ------------------------------------------------------------------ *)

\* the snapshot rows of one revision of a project
SnapshotsOf(id, revision) ==
  {s \in snapshots : s.projectId = id /\ s.revision = revision}

\* C22: an accepted write that produced a revision that is a multiple of 10 and
\* whose handler ran to its 200 answer has a snapshot of that revision with the
\* content it wrote, however recent the project's previous snapshot is
CadenceSnapshots ==
  \A r \in reqs :
    (r.pc = "resp" /\ r.status = 200 /\ r.body.revision % SNAPSHOT_EVERY_N_REVISIONS = 0)
      => \E s \in SnapshotsOf(r.doc, r.body.revision) : s.content = r.body.content

\* a write to revision 10 was snapshotted in the same instant as the
\* project's previous snapshot
CadenceSnapshotWithinInterval ==
  \E r \in reqs :
    /\ r.pc = "resp" /\ r.status = 200
    /\ r.body.revision = SNAPSHOT_EVERY_N_REVISIONS
    /\ r.latest.found
    /\ \E s \in SnapshotsOf(r.doc, r.body.revision) :
         s.createdAt - r.latest.createdAt < SNAPSHOT_INTERVAL_MS

\* C23: the handler that answers an accepted write 200 inserts a snapshot
\* exactly when, as it inserts, the project has no snapshot, or its latest one
\* is more than 30 s old, or the new revision is a multiple of 10; no other
\* answer comes with a new snapshot
SnapshotExactlyByPolicy ==
  [][\A r \in reqs :
       (Handled(r) /\ After(r).pc = "resp") =>
         IF r.pc = "looked" /\ After(r).status = 200
           THEN LET latest == LatestSnapshot(r.doc)
                IN (snapshots' # snapshots) <=>
                     \/ ~latest.found
                     \/ now - latest.createdAt > SNAPSHOT_INTERVAL_MS
                     \/ r.body.revision % SNAPSHOT_EVERY_N_REVISIONS = 0
           ELSE UNCHANGED snapshots]_vars

\* C24: every snapshot row carries a project, revision and content that an
\* accepted write left in that project's row, whatever other writes ran between
\* that write's UPDATE and the insert; no step changes or removes a snapshot row
SnapshotsAreWrittenRevisions ==
  /\ [](\A s \in snapshots :
          [doc |-> s.projectId, revision |-> s.revision, content |-> s.content]
            \in written)
  /\ [][snapshots \subseteq snapshots']_vars

\* a snapshot of a revision the project has already left: a later write to the
\* same project was accepted before the snapshot was inserted
SnapshotOfOvertakenWrite ==
  \E s \in snapshots, r \in reqs :
    /\ r.pc = "resp" /\ r.status = 200 /\ s.id = r.id
    /\ s.revision < projects[s.projectId].revision
    /\ s.content # projects[s.projectId].content
    /\ \E a \in accepted : a.doc = r.doc /\ a.base = s.revision /\ a.req > r.id

(* ------------------------------------------------------------------ *)
(* Properties of the API                                              *)
(* ------------------------------------------------------------------ *)

\* C25: the handler of a PATCH whose body has no string content or no integer
\* baseRevision answers 400 in its first step and changes no project row and
\* no snapshot, whatever the row under the identifier is and whether there is
\* one; such a request is never in another state than sent or answered 400
MalformedPatchAnswers400 ==
  /\ [](\A r \in reqs :
          (r.from # "creator" /\ ~WellFormed(r))
            => \/ r.pc = "sent"
               \/ r.pc = "resp" /\ r.status = 400 /\ r.body = NoProject)
  /\ [][\A r \in reqs :
          (Handled(r) /\ ~WellFormed(r))
            => /\ After(r).status = 400
               /\ UNCHANGED <<projects, snapshots>>]_vars

\* malformed PATCHes were answered 400 on an identifier without a row and on
\* one with a row
MalformedAnsweredEverywhere ==
  \E r, q \in reqs :
    /\ ~WellFormed(r) /\ r.status = 400 /\ ~Exists(r.doc)
    /\ ~WellFormed(q) /\ q.status = 400 /\ Exists(q.doc)

\* C26: a well-formed PATCH on an identifier without a row is answered 404 and
\* changes no row and no snapshot, and once the session has received a 404 it
\* sends no PATCH: not on a retry, a blur or a timer that follows the answer
NotFoundIsTerminal ==
  /\ [][\A r \in reqs :
          (Handled(r) /\ WellFormed(r) /\ ~Exists(r.doc) /\ After(r).pc = "resp")
            => /\ After(r).status = 404
               /\ UNCHANGED <<projects, snapshots>>]_vars
  /\ [][lastAct = "notFound" => SentNow = {}]_vars

\* the step in which the UPDATE of request r changes a row
AcceptStep(r) == Handled(r) /\ r.pc = "sent" /\ After(r).pc = "updated"

\* the step in which the handler of request r answers 200
AnswerStep(r) == Handled(r) /\ After(r).pc = "resp" /\ After(r).status = 200

\* what an accepted PATCH leaves alone, and what it answers: the row keeps its
\* id, language and createdAt, takes the request's content, and the row as
\* this UPDATE stored it is the body of the 200 answer
AcceptedPatchFrame(r) ==
  /\ AcceptStep(r)
       => /\ projects'[r.doc].content = r.content
          /\ projects'[r.doc].id = projects[r.doc].id
          /\ projects'[r.doc].language = projects[r.doc].language
          /\ projects'[r.doc].createdAt = projects[r.doc].createdAt
          /\ After(r).body = projects'[r.doc]
  /\ AnswerStep(r) => After(r).body = r.body

CreatedNow == {r \in reqs' : r.from = "creator" /\ ~\E q \in reqs : q.id = r.id}

\* what a POST does whatever the defaults are: the row is inserted under an
\* identifier no row had, at revision 0, and is the body of the 201 answer; the
\* other rows and all snapshots stay
CreateFrame(r) ==
  /\ ~Exists(r.doc)
  /\ projects'[r.doc].id = r.doc
  /\ projects'[r.doc].revision = 0
  /\ r.status = 201
  /\ r.body = projects'[r.doc]
  /\ \A id \in Ids \ {r.doc} : projects'[id] = projects[id]
  /\ UNCHANGED snapshots

SnapshotsOfOthers(id) == {x \in snapshots : x.projectId # id}

\* C29: a step of the handler of a PATCH on a project leaves the rows and the
\* snapshots of every other project as they are, and what the step does is
\* settled by the request and its own project's row and snapshots: the UPDATE
\* matches exactly when that row has the base revision, the re-select answers
\* 404 exactly when there is no such row and 409 with that row otherwise, the
\* lookup finds a snapshot exactly when that project has one, and a snapshot
\* inserted is that project's
PatchTouchesOwnProjectOnly ==
  [][\A r \in reqs :
       (Handled(r) /\ r.from # "creator") =>
         /\ \A id \in Ids \ {r.doc} : projects'[id] = projects[id]
         /\ SnapshotsOfOthers(r.doc)' = SnapshotsOfOthers(r.doc)
         /\ (r.pc = "sent" /\ WellFormed(r)) =>
              (After(r).pc = "updated"
                 <=> (Exists(r.doc) /\ projects[r.doc].revision = r.base))
         /\ r.pc = "missed" =>
              IF Exists(r.doc)
                THEN After(r).status = 409 /\ After(r).body = projects[r.doc]
                ELSE After(r).status = 404
         /\ (r.pc = "updated" /\ After(r).pc = "looked") =>
              (After(r).latest.found <=> \E x \in snapshots : x.projectId = r.doc)]_vars

\* two projects have each taken a write and a snapshot of it
TwoProjectsSnapshotted ==
  \E x, y \in snapshots :
    /\ x.projectId # y.projectId
    /\ projects[x.projectId].revision > 0
    /\ projects[y.projectId].revision > 0

(* ------------------------------------------------------------------ *)
(* Properties of the discarded draft                                  *)
(* ------------------------------------------------------------------ *)

\* the step in which the user discards the offered draft
DiscardStep == restoreDraft # NoDraft /\ restoreDraft' = NoDraft /\ lastAct' = "discard"

\* C30: discarding the offered draft removes the store's entry of the current
\* project and withdraws the offer; the buffer, the saved baselines and the
\* base revision stay as they are, no PATCH is sent and no save is scheduled
DiscardKeepsServerCopy ==
  [][DiscardStep =>
       /\ drafts'[projectIdRef] = NoDraft
       /\ restoreDraft' = NoDraft
       /\ UNCHANGED <<projectIdRef, latestValueRef, latestNameRef, lastSavedRef,
                      lastSavedNameRef, baseRevisionRef>>
       /\ UNCHANGED <<savingRef, pendingSaveRef, debounceRef, maxFlushRef, saveState>>
       /\ reqs' = reqs]_vars

\* the draft of an untouched session has been discarded: the store has no
\* entry, no PATCH was ever sent, and the buffer and the baselines are the
\* server's row
DraftDiscarded ==
  /\ lastAct = "discard"
  /\ restoreDraft = NoDraft
  /\ drafts[projectIdRef] = NoDraft
  /\ nextReq = 0
  /\ latestValueRef = projects[projectIdRef].content
  /\ lastSavedRef = projects[projectIdRef].content
  /\ latestNameRef = projects[projectIdRef].name
  /\ baseRevisionRef = projects[projectIdRef].revision

(* ------------------------------------------------------------------ *)
(* Properties of the session at rest                                  *)
(* ------------------------------------------------------------------ *)

\* the scheduler is at rest after a successful flush: state idle, no flush in
\* flight, no timer pending, and the buffer is what the server accepted
Quiescent ==
  /\ saveState = "idle"
  /\ ~savingRef
  /\ {r \in reqs : r.from = "client"} = {}
  /\ ~Armed(debounceRef) /\ ~Armed(maxFlushRef) /\ ~Armed(draftTimerRef.left)
  /\ baseRevisionRef > 0
  /\ latestValueRef = lastSavedRef /\ latestNameRef = lastSavedNameRef
  /\ projects[projectIdRef].content = latestValueRef
  /\ projects[projectIdRef].name = latestNameRef
  /\ projects[projectIdRef].revision = baseRevisionRef

\* C31: whenever the scheduler is at rest after a successful flush, the draft
\* store has no entry for the document
NoDraftAtRest == Quiescent => drafts[projectIdRef] = NoDraft

\* the PATCH requests of the session for the loaded project whose fetch has not
\* settled
Unsettled ==
  {r \in reqs : r.from = "client" /\ r.doc = projectIdRef /\ ~r.abandoned
                  /\ r.pc # "clearing"}

\* C32: the save state is one of idle, saving, error and conflict; it is
\* conflict exactly when the scheduler holds a conflicting record, it is saving
\* whenever a PATCH for the loaded project is in flight, and it becomes error only in
\* the step in which a flush fails and stays error over no flush that succeeds
SaveStateTruthful ==
  /\ [](/\ saveState \in {"idle", "saving", "error", "conflict"}
        /\ saveState = "conflict" <=> conflictRef # NoProject
        /\ Unsettled # {} => saveState = "saving")
  /\ [][/\ (saveState' = "error" /\ saveState # "error")
             => \E r \in reqs : FailedStep(r)
        /\ (\E r \in reqs : SuccessStep(r) /\ ~r.abandoned /\ ~FailedStep(r))
             => saveState' # "error"]_vars

\* C33: a session that is the only writer of its document never holds a
\* conflicting record and never shows the state conflict, whatever fetches
\* fail, responses are lost or statements fail after the compare-and-swap
SoleWriterNeverConflicts ==
  (otherSent = 0) => (saveState # "conflict" /\ conflictRef = NoProject)

(* Properties of the base revision *)

\* the step is handleOverwriteServer
OverwriteStep ==
  conflictRef # NoProject /\ conflictRef' = NoProject /\ lastAct' = "overwrite"

\* C34: the session's baseRevision never exceeds the revision the server
\* stores for the document and never decreases; it changes only to the
\* revision of a 200 response or, on Reload and Overwrite, to the revision of
\* the record that came with the 409, and that revision is greater than the
\* base that was rejected
BaseRevisionFollowsServer ==
  /\ [](/\ baseRevisionRef <= projects[projectIdRef].revision
        /\ \A r \in reqs : (r.pc = "resp" /\ r.status = 409)
                              => r.body.revision > r.base)
  /\ [][/\ baseRevisionRef' >= baseRevisionRef
        /\ baseRevisionRef' # baseRevisionRef
             => \/ \E r \in reqs : /\ SuccessStep(r) /\ ~r.abandoned
                                   /\ baseRevisionRef' = r.body.revision
                \/ /\ ReloadStep \/ OverwriteStep
                   /\ baseRevisionRef' = conflictRef.revision
        /\ (ReloadStep \/ OverwriteStep)
             => conflictRef.revision > baseRevisionRef]_vars

\* the session took the revision of a conflicting record as its base, its
\* overwrite was accepted and the 200 moved the base on
BaseFollowedRecordAndAnswer ==
  /\ lastAct = "overwrite"
  /\ saveState = "idle"
  /\ baseRevisionRef = 2
  /\ projects[projectIdRef].revision = 2

(* Properties of a saved buffer *)

\* C35: when the 200 of a flush is taken in and the buffer is still what the
\* flush sent, the latest content and name equal the saved baselines, whatever
\* the content and the name are, so that no later flush trigger sends a PATCH
SavedBufferIsClean ==
  [][\A r \in reqs :
       (/\ SuccessStep(r) /\ ~r.abandoned
        /\ <<r.content, r.name>> = <<latestValueRef, latestNameRef>>)
         => /\ <<latestValueRef', latestNameRef'>> = <<lastSavedRef', lastSavedNameRef'>>
            /\ FlushSkips(conflictRef)']_vars

(* Properties of the Overwrite resolution *)

\* C36: handleOverwriteServer sends at most one PATCH; while that PATCH is in
\* flight, and after it was answered 409, the session sends nothing until the
\* user acts again; the 409 puts the session back into conflict with the
\* record of the answer, which is newer than the base that was sent, and arms
\* no server-save timer
OverwriteSendsOnce ==
  [][/\ OverwriteStep => Cardinality(SentNow) <= 1
     /\ (/\ lastAct = "overwrite" /\ lastAct' = "overwrite" /\ ~OverwriteStep
         /\ saveState \in {"saving", "conflict"})
          => SentNow = {}
     /\ \A r \in reqs :
          (/\ lastAct = "overwrite" /\ lastAct' = "overwrite"
           /\ r.from = "client" /\ ~r.abandoned /\ r.pc = "resp" /\ r.status = 409
           /\ r \notin reqs')
            => /\ saveState' = "conflict"
               /\ conflictRef' = r.body
               /\ r.body.revision > r.base
               /\ ~SaveTimerArmed']_vars

\* the PATCH of an overwrite was answered 409 and the session waits in
\* conflict with the newer record
OverwriteConflictedAgain ==
  /\ lastAct = "overwrite"
  /\ saveState = "conflict"
  /\ baseRevisionRef = 1
  /\ conflictRef.revision = 2
  /\ reqs = {}
  /\ nextReq - otherSent < MaxReq

(* Properties of the restore offer across project switches *)

\* C37: the draft on offer is a draft of the loaded project: a lookup started
\* for one project that completes after the session has switched to another
\* offers nothing
OfferIsOfLoadedProject ==
  restoreDraft # NoDraft => restoreDraft.projectId = projectIdRef

(* Properties of the snapshot table *)

\* C38: a project has at most one snapshot of each revision, however the
\* handlers of concurrent PATCH requests interleave
OneSnapshotPerRevision ==
  \A s \in snapshots : Cardinality(SnapshotsOf(s.projectId, s.revision)) = 1

\* two PATCH requests on the same base revision were both handled: the write
\* of one was snapshotted, the other was answered 409
ConcurrentWritesOneSnapshot ==
  \E s \in snapshots, r \in reqs :
    /\ s.revision = BeforeCadence + 1
    /\ r.doc = s.projectId /\ r.base = BeforeCadence /\ r.id # s.id
    /\ r.pc = "resp" /\ r.status = 409

====
